---- MODULE Spec2Model ----
(***************************************************************************)
(* Model of the multi-provider LLM client layer:                           *)
(*   StrategicClientManager / StrategicChatCompletionClient                *)
(*     (src/autogen_agents/strategic_client_manager.py),                   *)
(*   GroqChatCompletionClient                                              *)
(*     (src/hf_deployment/autogen_agents/groq_client.py),                  *)
(*   HuggingFaceChatCompletionClient (src/autogen_agents/hf_client.py),    *)
(*   EmergencyFallbackClient (src/autogen_agents/emergency_fallback.py).   *)
(*                                                                         *)
(* Python strings are sequences of one-character strings, so that the      *)
(* substring tests of the code are computed and not assumed.               *)
(***************************************************************************)
EXTENDS Integers, Sequences, FiniteSets, TLC

\* ------------------------------------------------------------------ bounds
\* number of create calls one client makes in a behaviour
MaxCalls == 2

\* number of create calls one client makes in a behaviour of FairSpec
MaxFairCalls == 1

\* ----------------------------------------------------------- string helpers
UpperAlpha ==
    <<"A","B","C","D","E","F","G","H","I","J","K","L","M",
      "N","O","P","Q","R","S","T","U","V","W","X","Y","Z">>

LowerAlpha ==
    <<"a","b","c","d","e","f","g","h","i","j","k","l","m",
      "n","o","p","q","r","s","t","u","v","w","x","y","z">>

\* str.lower() on one character
LowerChar(c) ==
    IF \E i \in 1..26 : UpperAlpha[i] = c
    THEN LowerAlpha[CHOOSE i \in 1..26 : UpperAlpha[i] = c]
    ELSE c

\* str.lower()
Lower(s) == [i \in 1..Len(s) |-> LowerChar(s[i])]

\* sub occurs in s at position i
OccursAt(s, sub, i) ==
    /\ i >= 1
    /\ i + Len(sub) - 1 <= Len(s)
    /\ \A k \in 1..Len(sub) : s[i + k - 1] = sub[k]

\* Python's  sub in s
Contains(s, sub) == \E i \in 1..(Len(s) + 1) : OccursAt(s, sub, i)

\* any(phrase in s for phrase in phrases)
AnyPhraseIn(s, phrases) == \E j \in 1..Len(phrases) : Contains(s, phrases[j])

\* str.strip() leaves nothing: the string is empty or whitespace only
IsBlank(s) == \A i \in 1..Len(s) : s[i] \in {" ", "\t", "\n"}

\* ------------------------------------------------- error texts of the inputs
\* a rate-limit failure: str(e) = '429 Rate limit'
ErrRateLimit == <<"4","2","9"," ","R","a","t","e"," ","l","i","m","i","t">>

\* a server failure: str(e) = '500 Internal Server Error'
ErrServer == <<"5","0","0"," ","I","n","t","e","r","n","a","l"," ","S","e","r","v","e","r"," ","E","r","r","o","r">>

\* a model failure: str(e) = 'No model result was produced'
ErrModel == <<"N","o"," ","m","o","d","e","l"," ","r","e","s","u","l","t"," ","w","a","s"," ","p","r","o","d","u","c","e","d">>

\* a transport failure (timeout): str(e) = 'Read timeout'
ErrTimeout == <<"R","e","a","d"," ","t","i","m","e","o","u","t">>

\* a transport failure (connection): str(e) = 'Connection error'
ErrConnection == <<"C","o","n","n","e","c","t","i","o","n"," ","e","r","r","o","r">>

\* an unclassified failure: str(e) = 'banana'
ErrUnknown == <<"b","a","n","a","n","a">>

ErrorTexts == {ErrRateLimit, ErrServer, ErrModel, ErrTimeout, ErrConnection, ErrUnknown}

\* str(e) of the ValueError raised at groq_client.py:153
MsgListEmpty == <<"M","e","s","s","a","g","e","s"," ","l","i","s","t"," ","i","s"," ","e","m","p","t","y">>

\* str(e) of the ValueError raised at groq_client.py:161
MsgNoValid == <<"N","o"," ","v","a","l","i","d"," ","m","e","s","s","a","g","e","s"," ","a","f","t","e","r"," ","f","o","r","m","a","t","t","i","n","g">>

\* str(e) of the AttributeError raised by .strip()/.lower() on a content that is not a str
MsgAttributeError == <<"o","b","j","e","c","t"," ","h","a","s"," ","n","o"," ","a","t","t","r","i","b","u","t","e">>

\* ----------------------------------------------------------- conversations

QueryTotalCHWs == <<"S","h","o","w"," ","t","o","t","a","l"," ","C","H","W","s">>

QueryOther == <<"h","e","l","l","o">>

SystemStatusLiteral == <<"s","y","s","t","e","m"," ","s","t","a","t","u","s">>

\* a message of the conversation: its Python type, its source, and its
\* content (content_is_str is FALSE for a content that is a list, as in a
\* multi-modal message)
TextMsg(source, content) ==
    [type |-> "TextMessage", source |-> source,
     content_is_str |-> TRUE, content |-> content]

ListMsg(source) ==
    [type |-> "MultiModalMessage", source |-> source,
     content_is_str |-> FALSE, content |-> <<"i","m","g">>]

ConvTotalCHWs == << TextMsg("user", QueryTotalCHWs) >>
ConvOther == << TextMsg("user", QueryOther) >>
ConvEmpty == << >>
ConvMultiModal == << ListMsg("user") >>

\* the conversations passed to create
Conversations == {ConvTotalCHWs, ConvOther, ConvEmpty, ConvMultiModal}

\* the operation_type strings passed to the constructor; "other" stands for
\* any string that is in none of the three lists
OperationTypes ==
    {"system", "query", "interactive", "chat",
     "report", "analysis", "visualization", "other"}

\* outcome of the network call of a provider: it answers, or it raises an
\* exception with text err inside the provider's try block
NetOutcomes ==
    {[kind |-> "net_ok", err |-> << >>]}
    \cup {[kind |-> "net_fail", err |-> t] : t \in {ErrTimeout, ErrRateLimit}}

\* an exception with text err that leaves the awaited client.create call;
\* the except clauses at strategic_client_manager.py:264 and :302 handle it
RaiseOutcomes == {[kind |-> "raise", err |-> t] : t \in ErrorTexts}

CallOutcomes == NetOutcomes \cup RaiseOutcomes

\* ------------------------------------------------------------ response objects
Response(cls, producer, has_em, em, head, body, err) ==
    [cls |-> cls, producer |-> producer,
     has_emergency_mode |-> has_em, emergency_mode |-> em,
     head |-> head, body |-> body, err |-> err]

NoResponse == Response("none", "none", FALSE, FALSE, "", "", << >>)

\* class ErrorResponse of groq_client.py:198-207 and hf_client.py:165-174
ErrorResponse(producer, error_msg) ==
    Response("ErrorResponse", producer, FALSE, FALSE,
             "Error: ", ". Using fallback response for Kenya health data analysis.",
             error_msg)

\* class FinalErrorResponse of strategic_client_manager.py:318-336
FinalErrorResponse(error_msg) ==
    Response("FinalErrorResponse", "strategic", FALSE, FALSE,
             "SYSTEM UNAVAILABLE", "All AI services are currently experiencing issues",
             error_msg)

\* ------------------------------------------------- EmergencyFallbackClient
\* _initialize_patterns: the patterns in declaration order; a pattern is an
\* alternation of  .*p1.*p2.*  and is given by the parts of each alternative
query_patterns ==
    <<
       [name |-> "total_chws",
        alts |-> << << <<"t","o","t","a","l">>, <<"c","h","w">> >>,
              << <<"c","o","u","n","t">>, <<"c","h","w">> >>,
              << <<"h","o","w"," ","m","a","n","y">>, <<"c","h","w">> >> >>],
       [name |-> "county_performance",
        alts |-> << << <<"p","e","r","f","o","r","m","a","n","c","e">>, <<"c","o","u","n","t","y">> >>,
              << <<"c","o","u","n","t","y">>, <<"p","e","r","f","o","r","m","a","n","c","e">> >> >>],
       [name |-> "family_planning",
        alts |-> << << <<"f","a","m","i","l","y">>, <<"p","l","a","n","n","i","n","g">> >>,
              << <<"f","p">> >>,
              << <<"c","o","n","t","r","a","c","e","p","t","i","v","e">> >> >>],
       [name |-> "immunization",
        alts |-> << << <<"i","m","m","u","n","i","z","a","t","i","o","n">> >>,
              << <<"v","a","c","c","i","n","a","t","i","o","n">> >>,
              << <<"v","a","c","c","i","n","e">> >> >>],
       [name |-> "maternal_health",
        alts |-> << << <<"m","a","t","e","r","n","a","l">> >>,
              << <<"p","r","e","g","n","a","n","c","y">> >>,
              << <<"a","n","c">> >> >>],
       [name |-> "comparison",
        alts |-> << << <<"c","o","m","p","a","r","e">> >>,
              << <<"b","e","t","w","e","e","n">> >>,
              << <<"v","e","r","s","u","s">> >> >>],
       [name |-> "top_performers",
        alts |-> << << <<"t","o","p">> >>,
              << <<"b","e","s","t">> >>,
              << <<"h","i","g","h","e","s","t">> >>,
              << <<"p","e","r","f","o","r","m","i","n","g">> >> >>],
       [name |-> "trends",
        alts |-> << << <<"t","r","e","n","d">> >>,
              << <<"o","v","e","r"," ","t","i","m","e">> >>,
              << <<"m","o","n","t","h","l","y">> >>,
              << <<"q","u","a","r","t","e","r","l","y">> >> >>],
       [name |-> "dashboard",
        alts |-> << << <<"d","a","s","h","b","o","a","r","d">> >>,
              << <<"r","e","a","l">>, <<"t","i","m","e">> >>,
              << <<"m","o","n","i","t","o","r">> >> >>],
       [name |-> "report",
        alts |-> << << <<"r","e","p","o","r","t">> >>,
              << <<"g","e","n","e","r","a","t","e">> >>,
              << <<"s","u","m","m","a","r","y">> >> >>]
    >>
\* the phrase lists of StrategicChatCompletionClient.create, lines 273-282
server_error_phrases ==
    << <<"5","0","0">>,
       <<"s","e","r","v","e","r"," ","e","r","r","o","r">>,
       <<"i","n","t","e","r","n","a","l"," ","s","e","r","v","e","r"," ","e","r","r","o","r">>,
       <<"s","e","r","v","i","c","e"," ","u","n","a","v","a","i","l","a","b","l","e">>,
       <<"b","a","d"," ","g","a","t","e","w","a","y">>,
       <<"g","a","t","e","w","a","y"," ","t","i","m","e","o","u","t">>,
       <<"i","n","t","e","r","n","a","l"," ","e","r","r","o","r">> >>

rate_limit_phrases ==
    << <<"4","2","9">>,
       <<"r","a","t","e"," ","l","i","m","i","t">>,
       <<"t","o","o"," ","m","a","n","y"," ","r","e","q","u","e","s","t","s">>,
       <<"q","u","o","t","a"," ","e","x","c","e","e","d","e","d">> >>

model_error_phrases ==
    << <<"n","o"," ","m","o","d","e","l"," ","r","e","s","u","l","t">>,
       <<"a","s","s","e","r","t","i","o","n">>,
       <<"m","o","d","e","l"," ","r","e","s","u","l","t"," ","w","a","s"," ","p","r","o","d","u","c","e","d">> >>

\* keys of cached_responses
cached_responses == {"total_chws", "county_performance", "family_planning", "system_unavailable"}

RECURSIVE MatchParts(_, _, _)
\* the regular expression  .*p1.*p2.*  : the parts occur in s in this order,
\* one after the other, from position start on
MatchParts(s, parts, start) ==
    IF parts = << >> THEN TRUE
    ELSE \E i \in start..(Len(s) + 1) :
            /\ OccursAt(s, Head(parts), i)
            /\ MatchParts(s, Tail(parts), i + Len(Head(parts)))

\* re.search(pattern, s) for a pattern that is an alternation of  .*p1.*p2.*
re_search(pattern, s) ==
    \E a \in 1..Len(pattern.alts) : MatchParts(s, pattern.alts[a], 1)

RECURSIVE first_match(_, _)
\* the loop of _match_query_pattern from the i-th pattern on: the name of
\* the first pattern, in declaration order, that matches s
first_match(s, i) ==
    IF i > Len(query_patterns) THEN "system_unavailable"
    ELSE IF re_search(query_patterns[i], s) THEN query_patterns[i].name
    ELSE first_match(s, i + 1)

\* _match_query_pattern without query.lower()
match_query_pattern_case_sensitive(query) ==
    first_match(query, 1)

\* _match_query_pattern: query.lower() is matched against the patterns
match_query_pattern(query) ==
    CHOOSE name \in {first_match(query_lower, 1) : query_lower \in {Lower(query)}} : TRUE

\* _generate_emergency_response: the cached answer of the matched pattern and
\* the emergency metadata
generate_emergency_response(query) ==
    LET pattern == match_query_pattern(query)
    IN  [summary |-> IF pattern \in cached_responses THEN pattern
                     ELSE "system_unavailable",
         emergency_mode |-> TRUE]

\* EmergencyResponse without the emergency_mode attribute
EmergencyResponse_unmarked(data) ==
    Response("EmergencyResponse", "emergency", FALSE, FALSE,
             "EMERGENCY MODE - LIMITED FUNCTIONALITY", data.summary, << >>)

\* class EmergencyResponse: the banner, the summary, the cached-data notice
EmergencyResponse(data) ==
    Response("EmergencyResponse", "emergency", TRUE, data.emergency_mode,
             "EMERGENCY MODE - LIMITED FUNCTIONALITY", data.summary, << >>)

\* the loop of EmergencyFallbackClient.create, lines 157-164: the content of
\* the first message that has a content attribute (every message has one),
\* or the literal when that content is falsy or there is no message
emergency_user_query(messages) ==
    IF Len(messages) >= 1 /\ messages[1].content /= << >>
    THEN messages[1].content
    ELSE SystemStatusLiteral

\* EmergencyFallbackClient.create: the query is the content of the first
\* message; .lower() raises AttributeError on a content that is not a str
EmergencyCreate(messages) ==
    LET found == Len(messages) >= 1
        truthy == found /\ messages[1].content /= << >>
        query == emergency_user_query(messages)
    IN  IF truthy /\ ~messages[1].content_is_str
        THEN [kind |-> "raise", err |-> MsgAttributeError, response |-> NoResponse]
        ELSE [kind |-> "return", err |-> << >>,
              response |-> EmergencyResponse(generate_emergency_response(query))]

\* ------------------------------------------------- GroqChatCompletionClient
\* role given to a message by _format_messages
groq_role(m) ==
    IF m.type = "TextMessage"
    THEN (IF m.source = "user" THEN "user" ELSE "assistant")
    ELSE IF m.type = "SystemMessage" THEN "system"
    ELSE IF m.type = "AssistantMessage" THEN "assistant"
    ELSE "user"

\* _format_messages: the messages with a non-blank content, in order
groq_format_messages(messages) ==
    LET keep(m) == m.content /= << >> /\ ~IsBlank(m.content)
        RECURSIVE fmt(_)
        fmt(ms) == IF ms = << >> THEN << >>
                   ELSE IF keep(Head(ms))
                        THEN <<[role |-> groq_role(Head(ms)), content |-> Head(ms).content]>>
                             \o fmt(Tail(ms))
                        ELSE fmt(Tail(ms))
    IN  fmt(messages)

\* GroqChatCompletionClient.create: every exception raised in the body,
\* the one of the network call included, becomes an ErrorResponse
GroqCreate(messages, net) ==
    IF messages = << >>
    THEN ErrorResponse("groq", MsgListEmpty)
    ELSE IF \E i \in 1..Len(messages) :
                messages[i].content /= << >> /\ ~messages[i].content_is_str
    THEN ErrorResponse("groq", MsgAttributeError)
    ELSE IF groq_format_messages(messages) = << >>
    THEN ErrorResponse("groq", MsgNoValid)
    ELSE IF net.kind = "net_ok"
    THEN Response("AutoGenCompatibleResponse", "groq", FALSE, FALSE,
                  "", "completion", << >>)
    ELSE ErrorResponse("groq", net.err)

\* ------------------------------------------ HuggingFaceChatCompletionClient
\* chat_messages of HuggingFaceChatCompletionClient.create
hf_chat_messages(messages) ==
    LET RECURSIVE fmt(_)
        fmt(ms) == IF ms = << >> THEN << >>
                   ELSE IF Head(ms).type = "TextMessage"
                        THEN <<[role |-> IF Head(ms).source = "user" THEN "user"
                                         ELSE "assistant",
                                content |-> Head(ms).content]>> \o fmt(Tail(ms))
                        ELSE fmt(Tail(ms))
    IN  fmt(messages)

\* HuggingFaceChatCompletionClient.create: the network is called with
\* chat_messages; every exception becomes an ErrorResponse
HFCreate(messages, net) ==
    IF net.kind = "net_ok"
    THEN Response("HFResponse", "hf", FALSE, FALSE, "", "completion", << >>)
    ELSE ErrorResponse("hf", net.err)

\* the awaited  client.create(messages, cancellation_token, **kwargs)
ProviderCall(p, messages, o) ==
    IF o.kind = "raise"
    THEN [kind |-> "raise", err |-> o.err, response |-> NoResponse]
    ELSE [kind |-> "return", err |-> << >>,
          response |-> IF p = "groq" THEN GroqCreate(messages, o)
                       ELSE HFCreate(messages, o)]

\* -------------------------------------------------- StrategicClientManager

VARIABLES
    envHF,            \* HF_API_KEY is set in the environment
    envGroq,          \* GROQ_API_KEY is set in the environment
    phase,            \* position in StrategicChatCompletionClient.__init__
    hf_client,        \* manager.hf_client is not None
    groq_client,      \* manager.groq_client is not None
    emergency_client, \* manager.emergency_client is not None
    operation_stats,  \* manager.operation_stats
    operation_type,   \* self.operation_type
    current_client,   \* self.current_client: "hf", "groq" or "none"
    pc,               \* position of the running create call
    messages,         \* the conversation of the running create call
    attempts,         \* the client.create calls of the running create call
    error,            \* str(e) of the exception caught at line 264
    result,           \* what the create call returned
    nCalls,           \* number of create calls started
    attempted,        \* per provider, number of client.create calls made
    failed,           \* per provider, number of client.create calls that raised
    initEnv,          \* the credentials the manager found when it was built
    callee,           \* the client whose create is called directly
    requests,         \* the wire message lists the callee has sent to the network
    failure_class,    \* the flags computed from the error text
    user_query,       \* the text the emergency responder matched
    sf_phase,         \* position in SmartFallbackClient.__init__
    primary_client,   \* self.primary_client is not None
    fallback_client,  \* self.fallback_client is not None
    sf_current_client,\* self.current_client of SmartFallbackClient: "primary", "fallback" or "none"
    fallback_active,  \* self.fallback_active
    last_fallback_time,\* self.last_fallback_time
    now,              \* time.time()
    sf_pc,            \* position of the running SmartFallbackClient.create
    sf_attempts,      \* the clients awaited by the running SmartFallbackClient.create
    sf_result,        \* class of the object SmartFallbackClient.create returned
    sf_call,          \* time and fallback state at which the running create was called
    managers,         \* number of StrategicClientManager objects constructed
    instances,        \* per network provider, number of client objects constructed
    clients,          \* the strategic clients get_model_client returned
    th_pc,            \* per thread, position of its create call
    th_key,           \* per thread, the counter its += statement names
    th_reg,           \* per thread, the counter value its += statement has read
    th_calls,         \* per thread, number of create calls started
    increments,       \* per counter, number of += 1 statements completed
    cancelled,        \* number of the create call during whose first attempt the cancellation token was triggered, 0 for none
    metrics_history,  \* self.metrics_history: per metric name, the values recorded
    alerts,           \* self.alerts
    session_metrics,  \* self.session_metrics
    last_record,      \* the last record_metric call and the number of alerts before it
    users,            \* the users table: per username, the row of the user
    sessions,         \* the sessions table
    clock,            \* datetime.now(), in seconds
    next_session,     \* the number of session ids secrets.token_urlsafe has produced
    issued,           \* the sessions returned by successful authenticate calls
    logged_out,       \* the session ids passed to logout
    last_op           \* the last call of a method of RBACManager, its result, and the rows it found

vars == <<envHF, envGroq, phase, hf_client, groq_client, emergency_client,
          operation_stats, operation_type, current_client, pc, messages,
          attempts, error, result, nCalls, attempted, failed, initEnv,
          callee, requests, failure_class, user_query,
          sf_phase, primary_client, fallback_client, sf_current_client, fallback_active, last_fallback_time, now, sf_pc, sf_attempts, sf_result, sf_call,
          managers, instances, clients,
          th_pc, th_key, th_reg, th_calls, increments,
          cancelled,
          metrics_history, alerts, session_metrics, last_record,
          users, sessions, clock, next_session, issued, logged_out, last_op>>

\* the variables of the direct calls of a provider client, of the emergency
\* responder and of the error classification
componentVars == <<callee, requests, failure_class, user_query>>

\* the variables of the strategic client and of its manager
strategicVars ==
        <<envHF, envGroq, phase, hf_client, groq_client, emergency_client,
          operation_stats, operation_type, current_client, pc, messages,
          attempts, error, result, nCalls, attempted, failed, initEnv>>

\* the variables of SmartFallbackClient
smartVars == <<sf_phase, primary_client, fallback_client, sf_current_client, fallback_active, last_fallback_time, now, sf_pc, sf_attempts, sf_result, sf_call>>

\* the variables of get_model_client
factoryVars == <<managers, instances, clients>>

\* the variables of the threads that call create on one client
threadVars == <<th_pc, th_key, th_reg, th_calls, increments>>

\* the cancellation token passed to create
cancelVars == <<cancelled>>

\* the variables of PerformanceMonitor
monitorVars == <<metrics_history, alerts, session_metrics, last_record>>

\* the variables of RBACManager
rbacVars == <<users, sessions, clock, next_session, issued, logged_out, last_op>>

\* the variables of the other components
extensionVars == <<smartVars, factoryVars, threadVars, cancelVars, monitorVars, rbacVars>>

Providers == {"hf", "groq", "emergency"}

\* create_hf_client: a client if and only if HF_API_KEY is set
create_hf_client(key) == key

\* create_groq_client: a client if and only if GROQ_API_KEY is set
create_groq_client(key) == key

\* create_emergency_fallback_client returning None
create_emergency_fallback_client_none == FALSE

\* create_emergency_fallback_client: always a client
create_emergency_fallback_client == TRUE

\* _initialize_clients: the three clients, and whether ValueError is raised
initialize_clients(keyHF, keyGroq) ==
    LET hf == create_hf_client(keyHF)
        groq == create_groq_client(keyGroq)
        em == create_emergency_fallback_client
    IN  [hf_client |-> hf, groq_client |-> groq, emergency_client |-> em,
         raised |-> (~hf /\ ~groq /\ ~em)]

\* get_client_for_operation with the report operations routed like the
\* system operations
get_client_for_operation_report_hf(op, hf, groq) ==
    IF op \in {"query", "chat", "interactive"}
    THEN (IF groq THEN "groq" ELSE IF hf THEN "hf" ELSE "raise")
    ELSE (IF hf THEN "hf" ELSE IF groq THEN "groq" ELSE "raise")

\* get_client_for_operation: the client of the operation type, "raise"
\* when the manager has no network client
get_client_for_operation(op, hf, groq) ==
    IF op \in {"system", "initialization", "table", "schema"}
    THEN (IF hf THEN "hf" ELSE IF groq THEN "groq" ELSE "raise")
    ELSE IF op \in {"query", "chat", "interactive"}
    THEN (IF groq THEN "groq" ELSE IF hf THEN "hf" ELSE "raise")
    ELSE IF op \in {"report", "analysis", "visualization"}
    THEN (IF groq THEN "groq" ELSE IF hf THEN "hf" ELSE "raise")
    ELSE (IF hf THEN "hf" ELSE IF groq THEN "groq" ELSE "raise")

\* no error text has been looked at
NoFlags ==
    [is_server_error |-> FALSE, is_rate_limit |-> FALSE,
     is_model_error |-> FALSE, should_fallback |-> FALSE]

\* StrategicClientManager.__init__
InitialStats ==
    [hf_calls |-> 0, groq_calls |-> 0, emergency_calls |-> 0,
     hf_errors |-> 0, groq_errors |-> 0, emergency_errors |-> 0]

\* total_calls of _calculate_reliability_score
total_calls(stats) == stats.hf_calls + stats.groq_calls + stats.emergency_calls

\* total_errors of _calculate_reliability_score
total_errors(stats) == stats.hf_errors + stats.groq_errors + stats.emergency_errors

\* a float is the fraction num/den with den > 0
Frac(num, den) == [num |-> num, den |-> den]

\* a < b for two fractions
FracLess(a, b) == a.num * b.den < b.num * a.den

\* max(0.0, min(1.0, x))
Clamp01(x) ==
    IF x.num < 0 THEN Frac(0, 1)
    ELSE IF x.num > x.den THEN Frac(1, 1)
    ELSE x

\* success_rate - emergency_penalty
\*   = (total_calls - total_errors) / total_calls - emergency_calls * 0.1
RawScore(stats) ==
    Frac(10 * (total_calls(stats) - total_errors(stats))
            - stats.emergency_calls * total_calls(stats),
         10 * total_calls(stats))

\* the score returned without the clamping to [0, 1]
calculate_reliability_score_unclamped(stats) ==
    IF total_calls(stats) = 0 THEN Frac(1, 1) ELSE RawScore(stats)

\* _calculate_reliability_score
calculate_reliability_score(stats) ==
    IF total_calls(stats) = 0 THEN Frac(1, 1) ELSE Clamp01(RawScore(stats))

Init ==
    /\ envHF \in BOOLEAN
    /\ envGroq \in BOOLEAN
    /\ phase = "new"
    /\ hf_client = FALSE
    /\ groq_client = FALSE
    /\ emergency_client = FALSE
    /\ operation_stats = InitialStats
    /\ operation_type = "system"
    /\ current_client = "none"
    /\ pc = "idle"
    /\ messages = << >>
    /\ attempts = << >>
    /\ error = << >>
    /\ result = NoResponse
    /\ nCalls = 0
    /\ attempted = [p \in Providers |-> 0]
    /\ failed = [p \in Providers |-> 0]
    /\ initEnv = [hf |-> FALSE, groq |-> FALSE]
    /\ callee = "none"
    /\ requests = << >>
    /\ failure_class = NoFlags
    /\ user_query = << >>
    /\ sf_phase = "new"
    /\ primary_client = FALSE
    /\ fallback_client = FALSE
    /\ sf_current_client = "none"
    /\ fallback_active = FALSE
    /\ last_fallback_time = 0
    /\ now = 0
    /\ sf_pc = "idle"
    /\ sf_attempts = << >>
    /\ sf_result = "none"
    /\ sf_call = [time |-> 0, active |-> FALSE, since |-> 0]
    /\ managers = 0
    /\ instances = [p \in {"hf", "groq"} |-> 0]
    /\ clients = << >>
    /\ th_pc = [t \in 1..2 |-> "idle"]
    /\ th_key = [t \in 1..2 |-> "none"]
    /\ th_reg = [t \in 1..2 |-> 0]
    /\ th_calls = [t \in 1..2 |-> 0]
    /\ increments = [k \in {"hf_calls", "groq_calls", "emergency_calls", "hf_errors", "groq_errors", "emergency_errors"} |-> 0]
    /\ cancelled = 0
    /\ metrics_history = [n \in {"workflow_execution_time", "sql_generation_time", "success_rate", "memory_usage", "cache_hit_time"} |-> << >>]
    /\ alerts = << >>
    /\ session_metrics = [total_requests |-> 0, successful_requests |-> 0, failed_requests |-> 0, total_response_time |-> 0]
    /\ last_record = [metric_name |-> "none", value |-> 0, alerts_before |-> 0]
    /\ users = << >>
    /\ sessions = {}
    /\ clock = 0
    /\ next_session = 0
    /\ issued = {}
    /\ logged_out = {}
    /\ last_op = [op |-> "none"]

\* StrategicChatCompletionClient.__init__, line 177: the manager is built
ManagerInit ==
    /\ phase = "new"
    /\ LET m == initialize_clients(envHF, envGroq)
       IN  /\ hf_client' = m.hf_client
           /\ groq_client' = m.groq_client
           /\ emergency_client' = m.emergency_client
           /\ phase' = IF m.raised THEN "manager_raised" ELSE "manager_ready"
    /\ operation_stats' = InitialStats
    /\ initEnv' = [hf |-> envHF, groq |-> envGroq]
    /\ UNCHANGED <<envHF, envGroq, operation_type, current_client, pc,
                   messages, attempts, error, result, nCalls, attempted, failed>>
    /\ UNCHANGED componentVars
    /\ UNCHANGED extensionVars

\* StrategicChatCompletionClient.__init__, lines 178-179
ClientInit(op) ==
    /\ phase = "manager_ready"
    /\ operation_type' = op
    /\ LET c == get_client_for_operation(op, hf_client, groq_client)
       IN  IF c = "raise"
           THEN phase' = "init_raised" /\ current_client' = "none"
           ELSE phase' = "ready" /\ current_client' = c
    /\ UNCHANGED <<envHF, envGroq, hf_client, groq_client, emergency_client,
                   operation_stats, pc, messages, attempts, error, result,
                   nCalls, attempted, failed, initEnv>>
    /\ UNCHANGED componentVars
    /\ UNCHANGED extensionVars

\* the environment variables change after the construction
SetEnv(keyHF, keyGroq) ==
    /\ phase = "ready"
    /\ pc = "idle"
    /\ <<keyHF, keyGroq>> /= <<envHF, envGroq>>
    /\ envHF' = keyHF
    /\ envGroq' = keyGroq
    /\ UNCHANGED <<phase, hf_client, groq_client, emergency_client,
                   operation_stats, operation_type, current_client, pc,
                   messages, attempts, error, result, nCalls, attempted, failed,
                   initEnv>>
    /\ UNCHANGED componentVars
    /\ UNCHANGED extensionVars

\* --------------------------------------- StrategicChatCompletionClient.create
Attempt(p, status, o) == [provider |-> p, status |-> status, kind |-> o.kind, err |-> o.err]

Pending == [kind |-> "pending", err |-> << >>]

\* the counter a key of operation_stats names
Bump(stats, key) == [stats EXCEPT ![key] = @ + 1]

CallsKey(p) == IF p = "groq" THEN "groq_calls" ELSE "hf_calls"

ErrorsKey(p) == IF p = "groq" THEN "groq_errors" ELSE "hf_errors"

\* lines 256-260: the statistics after the current client has answered
StatsAfterPrimaryReturn(stats, p) == Bump(stats, CallsKey(p))

\* lines 265-269: the statistics after the current client has raised
StatsAfterPrimaryRaise(stats, p) == Bump(stats, ErrorsKey(p))

\* lines 299-303: the statistics after the fallback client has answered or raised
StatsAfterFallback(stats, p, raised) == stats

\* line 310: the statistics after the emergency client has answered
StatsAfterEmergencyReturn(stats) == Bump(stats, "emergency_calls")

\* line 315: the statistics after the emergency client has raised
StatsAfterEmergencyRaise(stats) == Bump(stats, "emergency_errors")


\* lines 272-287: the error is one the fallback provider is tried for
is_server_error(e) == AnyPhraseIn(Lower(e), server_error_phrases)

is_rate_limit(e) == AnyPhraseIn(Lower(e), rate_limit_phrases)

is_model_error(e) == AnyPhraseIn(Lower(e), model_error_phrases)

\* every error is one the fallback provider is tried for
is_recoverable_any(e) == TRUE

is_recoverable(e) == is_server_error(e) \/ is_rate_limit(e) \/ is_model_error(e)

\* lines 290-295: the opposite client
fallback_of(p) == IF p = "groq" THEN "hf" ELSE "groq"

\* the clients are looked up in the environment at the time of the call
Available_env(p) ==
    IF p = "groq" THEN envGroq
    ELSE IF p = "hf" THEN envHF
    ELSE emergency_client

\* manager.<p>_client is not None
Available(p) ==
    IF p = "groq" THEN groq_client
    ELSE IF p = "hf" THEN hf_client
    ELSE emergency_client

\* the fallback client is called without the test that it exists
UsesFallback_unconfigured(e, p) ==
    /\ is_recoverable(e)
    /\ fallback_of(p) /= p

\* lines 286-297: the fallback client is called
UsesFallback(e, p) ==
    /\ is_recoverable(e)
    /\ Available(fallback_of(p))
    /\ fallback_of(p) /= p

\* the current client is called again after a recoverable error
next_after_primary_retry(e, p) ==
    IF is_recoverable(e) THEN p ELSE "emergency"

\* lines 286-306: the client awaited after the current client p has raised e
next_after_primary(e, p) ==
    IF UsesFallback(e, p) THEN fallback_of(p) ELSE "emergency"

\* lines 247-254: create starts and awaits the current client; the client
\* makes at most limit calls
BeginCreateWithin(msgs, limit) ==
    /\ phase = "ready"
    /\ pc = "idle"
    /\ nCalls < limit
    /\ nCalls' = nCalls + 1
    /\ messages' = msgs
    /\ error' = << >>
    /\ result' = NoResponse
    /\ IF current_client = "none"
       THEN \* line 249 raises; line 269 counts; line 284 raises UnboundLocalError
            /\ pc' = "done"
            /\ attempts' = << >>
            /\ operation_stats' = Bump(operation_stats, "hf_errors")
            /\ UNCHANGED attempted
       ELSE /\ pc' = "primary"
            /\ attempts' = << Attempt(current_client, "pending", Pending) >>
            /\ attempted' = [attempted EXCEPT ![current_client] = @ + 1]
            /\ UNCHANGED operation_stats
    /\ UNCHANGED <<envHF, envGroq, phase, hf_client, groq_client,
                   emergency_client, operation_type, current_client, failed,
                   initEnv>>
    /\ UNCHANGED componentVars
    /\ UNCHANGED extensionVars

\* lines 305-336, entered with the attempts made so far: the emergency client
\* is awaited, or FinalErrorResponse(str(e)) is returned
GoEmergency(done, e) ==
    IF emergency_client
    THEN /\ pc' = "emergency"
         /\ attempts' = done \o << Attempt("emergency", "pending", Pending) >>
         /\ attempted' = [attempted EXCEPT !["emergency"] = @ + 1]
         /\ result' = result
    ELSE /\ pc' = "done"
         /\ attempts' = done
         /\ attempted' = attempted
         /\ result' = FinalErrorResponse(e)

\* the client switches to the other network provider when its call raised
current_client_after_raise_switch(p) ==
    IF Available(fallback_of(p)) THEN fallback_of(p) ELSE p

\* self.current_client after the call of the current client p has raised:
\* create assigns self.current_client nowhere
current_client_after_raise(p) == p

\* lines 254-303: the call of the current client ends
PrimaryResolves(o) ==
    /\ pc = "primary"
    /\ \E r \in {ProviderCall(current_client, messages, o)} :
       LET p == current_client
           done == << Attempt(p, IF r.kind = "raise" THEN "raised" ELSE "returned", o) >>
       IN  IF r.kind = "return"
           THEN /\ operation_stats' = StatsAfterPrimaryReturn(operation_stats, p)
                /\ result' = r.response
                /\ pc' = "done"
                /\ attempts' = done
                /\ UNCHANGED <<error, attempted, failed, current_client>>
           ELSE /\ operation_stats' = StatsAfterPrimaryRaise(operation_stats, p)
                /\ error' = r.err
                /\ current_client' = current_client_after_raise(p)
                /\ failed' = [failed EXCEPT ![p] = @ + 1]
                /\ LET target == next_after_primary(r.err, p)
                   IN  IF target /= "emergency"
                       THEN /\ pc' = "fallback"
                            /\ attempts' = done \o
                                   << Attempt(target, "pending", Pending) >>
                            /\ attempted' = [attempted EXCEPT ![target] = @ + 1]
                            /\ UNCHANGED result
                       ELSE GoEmergency(done, r.err)
    /\ UNCHANGED <<envHF, envGroq, phase, hf_client, groq_client,
                   emergency_client, operation_type,
                   messages, nCalls, initEnv>>
    /\ UNCHANGED componentVars
    /\ UNCHANGED extensionVars

\* lines 299-315: the call of the fallback client ends
FallbackResolves(o) ==
    /\ pc = "fallback"
    /\ \E r \in {ProviderCall(attempts[2].provider, messages, o)} :
       LET p == attempts[2].provider
           done == << attempts[1],
                      Attempt(p, IF r.kind = "raise" THEN "raised" ELSE "returned", o) >>
       IN  /\ operation_stats' = StatsAfterFallback(operation_stats, p, r.kind = "raise")
           /\ IF r.kind = "return"
              THEN /\ result' = r.response
                   /\ pc' = "done"
                   /\ attempts' = done
                   /\ UNCHANGED <<attempted, failed>>
              ELSE /\ failed' = [failed EXCEPT ![p] = @ + 1]
                   /\ GoEmergency(done, error)
    /\ UNCHANGED <<envHF, envGroq, phase, hf_client, groq_client,
                   emergency_client, operation_type, current_client,
                   messages, error, nCalls, initEnv>>
    /\ UNCHANGED componentVars
    /\ UNCHANGED extensionVars

\* lines 309-336: the call of the emergency client ends
EmergencyResolves ==
    /\ pc = "emergency"
    /\ \E r \in {EmergencyCreate(messages)} :
       LET n == Len(attempts)
           done == [attempts EXCEPT ![n] =
                       Attempt("emergency",
                               IF r.kind = "raise" THEN "raised" ELSE "returned", r)]
       IN  /\ attempts' = done
           /\ pc' = "done"
           /\ IF r.kind = "return"
              THEN /\ operation_stats' = StatsAfterEmergencyReturn(operation_stats)
                   /\ result' = r.response
                   /\ UNCHANGED failed
              ELSE /\ operation_stats' = StatsAfterEmergencyRaise(operation_stats)
                   /\ result' = FinalErrorResponse(error)
                   /\ failed' = [failed EXCEPT !["emergency"] = @ + 1]
    /\ UNCHANGED <<envHF, envGroq, phase, hf_client, groq_client,
                   emergency_client, operation_type, current_client,
                   messages, error, nCalls, attempted, initEnv>>
    /\ UNCHANGED componentVars
    /\ UNCHANGED extensionVars

\* the caller has the result; the client is ready for the next call
Return ==
    /\ pc = "done"
    /\ pc' = "idle"
    /\ messages' = << >>
    /\ attempts' = << >>
    /\ error' = << >>
    /\ result' = NoResponse
    /\ UNCHANGED <<envHF, envGroq, phase, hf_client, groq_client,
                   emergency_client, operation_stats, operation_type,
                   current_client, nCalls, attempted, failed, initEnv>>
    /\ UNCHANGED componentVars
    /\ UNCHANGED extensionVars

BeginCreate(msgs) == BeginCreateWithin(msgs, MaxCalls)

Next ==
    \/ ManagerInit
    \/ \E op \in OperationTypes : ClientInit(op)
    \/ \E a \in BOOLEAN, b \in BOOLEAN : SetEnv(a, b)
    \/ \E msgs \in Conversations : BeginCreate(msgs)
    \/ \E o \in CallOutcomes : PrimaryResolves(o)
    \/ \E o \in CallOutcomes : FallbackResolves(o)
    \/ EmergencyResolves
    \/ Return

Spec == Init /\ [][Next]_vars

\* the same client making at most MaxFairCalls calls in an environment that
\* does not change after the construction
NextFair ==
    \/ ManagerInit
    \/ \E op \in OperationTypes : ClientInit(op)
    \/ \E msgs \in Conversations : BeginCreateWithin(msgs, MaxFairCalls)
    \/ \E o \in CallOutcomes : PrimaryResolves(o)
    \/ \E o \in CallOutcomes : FallbackResolves(o)
    \/ EmergencyResolves
    \/ Return

\* an awaited client.create call ends (the providers bound their network
\* call by a timeout, the emergency responder does no input or output), so
\* every started step of a create call is eventually taken
FairSpec ==
    /\ Init
    /\ [][NextFair]_vars
    /\ WF_vars(\E o \in CallOutcomes : PrimaryResolves(o))
    /\ WF_vars(\E o \in CallOutcomes : FallbackResolves(o))
    /\ WF_vars(EmergencyResolves)

\* ------------------------------------------- direct calls of the components
\* the longest conversation passed to a client directly
MaxConvLen == 2

QueryCountyTrends == <<"C","o","u","n","t","y"," ","p","e","r","f","o","r","m","a","n","c","e"," ","t","r","e","n","d","s">>

QueryVaccineReport == <<"V","a","c","c","i","n","e"," ","r","e","p","o","r","t">>

QueryFP == <<"F","P"," ","u","p","t","a","k","e">>

BlankText == <<" "," ">>

\* a SystemMessage of the conversation
SysMsg(content) ==
    [type |-> "SystemMessage", source |-> "system",
     content_is_str |-> TRUE, content |-> content]

\* the messages the conversations of the direct calls are made of
ComponentMessages ==
    {TextMsg("user", QueryTotalCHWs), TextMsg("user", QueryOther),
     TextMsg("assistant", QueryTotalCHWs), SysMsg(QueryOther),
     TextMsg("user", BlankText), TextMsg("user", << >>)}

\* the conversations passed to a provider client or to the responder
ComponentConversations ==
    UNION {[1..n -> ComponentMessages] : n \in 0..MaxConvLen}

\* the queries sent to the responder as the only message of a conversation
ResponderQueries ==
    {QueryTotalCHWs, QueryOther, QueryCountyTrends, QueryVaccineReport, QueryFP}

ResponderConversations ==
    ComponentConversations \cup {<<TextMsg("user", q)>> : q \in ResponderQueries}

Text429 == <<"4","2","9"," ","t","o","o"," ","m","a","n","y"," ","r","e","q","u","e","s","t","s">>

Text500 == <<"5","0","0"," ","i","n","t","e","r","n","a","l"," ","s","e","r","v","e","r"," ","e","r","r","o","r">>

TextTimedOut == <<"r","e","q","u","e","s","t"," ","t","i","m","e","d"," ","o","u","t">>

Text429Server == <<"4","2","9"," ","i","n","t","e","r","n","a","l"," ","s","e","r","v","e","r"," ","e","r","r","o","r">>

TextGatewayTimeout == <<"G","a","t","e","w","a","y"," ","T","i","m","e","o","u","t">>

\* the error texts that are classified
ClassifyTexts ==
    ErrorTexts \cup {Text429, Text500, TextTimedOut, Text429Server, TextGatewayTimeout}

\* the phrase list of SmartFallbackClient.create, lines 184-187
should_fallback_phrases ==
    << <<"r","a","t","e"," ","l","i","m","i","t">>,
       <<"4","2","9">>,
       <<"t","o","o"," ","m","a","n","y"," ","r","e","q","u","e","s","t","s">>,
       <<"q","u","o","t","a"," ","e","x","c","e","e","d","e","d">>,
       <<"a","p","i"," ","e","r","r","o","r">>,
       <<"t","i","m","e","o","u","t">>,
       <<"c","o","n","n","e","c","t","i","o","n"," ","e","r","r","o","r">> >>

\* should_fallback of SmartFallbackClient.create: a phrase of the list occurs
\* in str(e).lower()
should_fallback(e) == AnyPhraseIn(Lower(e), should_fallback_phrases)

\* the flags the except clauses compute from the text of the exception
error_flags(e) ==
    [is_server_error |-> is_server_error(e), is_rate_limit |-> is_rate_limit(e),
     is_model_error |-> is_model_error(e), should_fallback |-> should_fallback(e)]

\* the wire message list a provider client builds from the conversation
wire_messages(p, msgs) ==
    IF p = "groq" THEN groq_format_messages(msgs) ELSE hf_chat_messages(msgs)

\* GroqChatCompletionClient.create reaches the network call: none of the
\* exceptions of lines 147-161 was raised
groq_reaches_network(msgs) ==
    /\ msgs /= << >>
    /\ \A i \in 1..Len(msgs) : msgs[i].content = << >> \/ msgs[i].content_is_str
    /\ groq_format_messages(msgs) /= << >>

\* a create that calls the network again after a failed call
network_calls_after_failure_retry(p) == 1

\* the number of network calls create makes after its network call raised:
\* the except clause returns the ErrorResponse
network_calls_after_failure(p) == 0

\* create of a provider client up to its network call
ProviderBegin(p, msgs) ==
    /\ pc = "idle"
    /\ callee' = p
    /\ messages' = msgs
    /\ IF p = "hf" \/ groq_reaches_network(msgs)
       THEN /\ requests' = <<wire_messages(p, msgs)>>
            /\ result' = NoResponse
            /\ pc' = "network"
       ELSE /\ requests' = << >>
            /\ result' = GroqCreate(msgs, [kind |-> "net_ok", err |-> << >>])
            /\ pc' = "done"
    /\ UNCHANGED <<envHF, envGroq, phase, hf_client, groq_client,
                   emergency_client, operation_stats, operation_type,
                   current_client, attempts, error, nCalls, attempted, failed,
                   initEnv, failure_class, user_query>>
    /\ UNCHANGED extensionVars

\* the network call of the provider client answers or raises
NetworkResolves(net) ==
    /\ pc = "network"
    /\ IF net.kind = "net_fail" /\ Len(requests) <= network_calls_after_failure(callee)
       THEN /\ requests' = Append(requests, wire_messages(callee, messages))
            /\ UNCHANGED <<result, pc>>
       ELSE /\ result' = (IF callee = "groq" THEN GroqCreate(messages, net)
                          ELSE HFCreate(messages, net))
            /\ pc' = "done"
            /\ UNCHANGED requests
    /\ UNCHANGED <<envHF, envGroq, phase, hf_client, groq_client,
                   emergency_client, operation_stats, operation_type,
                   current_client, messages, attempts, error, nCalls, attempted,
                   failed, initEnv, callee, failure_class, user_query>>
    /\ UNCHANGED extensionVars

\* EmergencyFallbackClient.create called with a conversation
ResponderCall(msgs) ==
    /\ pc = "idle"
    /\ callee' = "emergency"
    /\ messages' = msgs
    /\ requests' = << >>
    /\ user_query' = emergency_user_query(msgs)
    /\ \E r \in {EmergencyCreate(msgs)} :
          /\ result' = r.response
          /\ error' = r.err
    /\ pc' = "done"
    /\ UNCHANGED <<envHF, envGroq, phase, hf_client, groq_client,
                   emergency_client, operation_stats, operation_type,
                   current_client, attempts, nCalls, attempted, failed,
                   initEnv, failure_class>>
    /\ UNCHANGED extensionVars

\* the except clause looks at the text of an exception
ClassifyError(t) ==
    /\ pc = "idle"
    /\ callee' = "classifier"
    /\ error' = t
    /\ failure_class' = error_flags(t)
    /\ pc' = "done"
    /\ UNCHANGED <<envHF, envGroq, phase, hf_client, groq_client,
                   emergency_client, operation_stats, operation_type,
                   current_client, messages, attempts, result, nCalls,
                   attempted, failed, initEnv, requests, user_query>>
    /\ UNCHANGED extensionVars

\* the direct call has returned
ComponentReturn ==
    /\ pc = "done"
    /\ pc' = "idle"
    /\ callee' = "none"
    /\ messages' = << >>
    /\ requests' = << >>
    /\ result' = NoResponse
    /\ error' = << >>
    /\ failure_class' = NoFlags
    /\ user_query' = << >>
    /\ UNCHANGED <<envHF, envGroq, phase, hf_client, groq_client,
                   emergency_client, operation_stats, operation_type,
                   current_client, attempts, nCalls, attempted, failed, initEnv>>
    /\ UNCHANGED extensionVars

ComponentInit == Init /\ envHF /\ envGroq

ComponentNext ==
    \/ \E p \in {"groq", "hf"}, msgs \in ComponentConversations : ProviderBegin(p, msgs)
    \/ \E net \in NetOutcomes : NetworkResolves(net)
    \/ \E msgs \in ResponderConversations : ResponderCall(msgs)
    \/ \E t \in ClassifyTexts : ClassifyError(t)
    \/ ComponentReturn

\* the provider clients, the responder and the classification called directly
ComponentSpec == ComponentInit /\ [][ComponentNext]_vars

\* ------------------------------------------------------ SmartFallbackClient
\* the last value of the clock
MaxTime == 650

\* the seconds that pass between two steps
TimeSteps == {100, 101}

\* self.fallback_reset_interval
fallback_reset_interval == 300

\* the variables SmartFallbackClient leaves alone
smartFrame == <<strategicVars, componentVars, factoryVars, threadVars, cancelVars, monitorVars, rbacVars>>

\* the network provider behind self.current_client
ClientOf(c) == IF c = "primary" THEN "groq" ELSE "hf"

\* the primary client is tried again when the interval has just elapsed
should_reset_fallback_at_interval(active, last, t) ==
    active /\ (t - last) >= fallback_reset_interval

\* _should_reset_fallback, with t the value of time.time()
should_reset_fallback(active, last, t) ==
    active /\ (t - last) > fallback_reset_interval

\* SmartFallbackClient.__init__ and _initialize_clients
SmartInit ==
    /\ sf_phase = "new"
    /\ primary_client' = create_groq_client(envGroq)
    /\ fallback_client' = create_hf_client(envHF)
    /\ sf_current_client' = IF create_groq_client(envGroq) THEN "primary"
                            ELSE IF create_hf_client(envHF) THEN "fallback"
                            ELSE "none"
    /\ sf_phase' = IF create_groq_client(envGroq) \/ create_hf_client(envHF)
                   THEN "ready" ELSE "raised"
    /\ UNCHANGED <<fallback_active, last_fallback_time, now, sf_pc,
                   sf_attempts, sf_result, sf_call>>
    /\ UNCHANGED smartFrame

\* the clock advances
Tick(d) ==
    /\ now + d <= MaxTime
    /\ now' = now + d
    /\ UNCHANGED <<sf_phase, primary_client, fallback_client, sf_current_client,
                   fallback_active, last_fallback_time, sf_pc, sf_attempts,
                   sf_result, sf_call>>
    /\ UNCHANGED smartFrame

\* create, lines 160-172: the reset check, _try_primary_client, and the
\* await of the current client
SmartBegin ==
    /\ sf_phase = "ready"
    /\ sf_pc = "idle"
    /\ sf_call' = [time |-> now, active |-> fallback_active,
                   since |-> last_fallback_time]
    /\ LET switch == /\ should_reset_fallback(fallback_active, last_fallback_time, now)
                     /\ primary_client
                     /\ fallback_active
           cur == IF switch THEN "primary" ELSE sf_current_client
       IN  /\ sf_current_client' = cur
           /\ fallback_active' = (IF switch THEN FALSE ELSE fallback_active)
           /\ IF cur = "none"
              THEN /\ sf_pc' = "done"
                   /\ sf_attempts' = << >>
                   /\ sf_result' = "ErrorResponse"
              ELSE /\ sf_pc' = "current"
                   /\ sf_attempts' = << ClientOf(cur) >>
                   /\ sf_result' = "none"
    /\ UNCHANGED <<sf_phase, primary_client, fallback_client,
                   last_fallback_time, now>>
    /\ UNCHANGED smartFrame

\* create, lines 172-236: the call of the current client ends; an exception
\* with a fallback phrase activates the fallback (_activate_fallback) and
\* the fallback client is awaited
SmartCurrentResolves(o) ==
    /\ sf_pc = "current"
    /\ IF o.kind /= "raise"
       THEN /\ sf_result' = "response"
            /\ sf_pc' = "done"
            /\ UNCHANGED <<sf_current_client, fallback_active,
                           last_fallback_time, sf_attempts>>
       ELSE IF should_fallback(o.err) /\ ~fallback_active /\ fallback_client
       THEN /\ sf_current_client' = "fallback"
            /\ fallback_active' = TRUE
            /\ last_fallback_time' = now
            /\ sf_pc' = "retry"
            /\ sf_attempts' = Append(sf_attempts, ClientOf("fallback"))
            /\ UNCHANGED sf_result
       ELSE /\ sf_result' = "ErrorResponse"
            /\ sf_pc' = "done"
            /\ UNCHANGED <<sf_current_client, fallback_active,
                           last_fallback_time, sf_attempts>>
    /\ UNCHANGED <<sf_phase, primary_client, fallback_client, now, sf_call>>
    /\ UNCHANGED smartFrame

\* create, lines 194-216: the call of the fallback client ends
SmartRetryResolves(o) ==
    /\ sf_pc = "retry"
    /\ sf_result' = (IF o.kind = "raise" THEN "FallbackErrorResponse" ELSE "response")
    /\ sf_pc' = "done"
    /\ UNCHANGED <<sf_phase, primary_client, fallback_client, sf_current_client,
                   fallback_active, last_fallback_time, now, sf_attempts, sf_call>>
    /\ UNCHANGED smartFrame

\* the caller has the result
SmartReturn ==
    /\ sf_pc = "done"
    /\ sf_pc' = "idle"
    /\ sf_attempts' = << >>
    /\ sf_result' = "none"
    /\ UNCHANGED <<sf_phase, primary_client, fallback_client, sf_current_client,
                   fallback_active, last_fallback_time, now, sf_call>>
    /\ UNCHANGED smartFrame

SmartNext ==
    \/ SmartInit
    \/ \E d \in TimeSteps : Tick(d)
    \/ SmartBegin
    \/ \E o \in CallOutcomes : SmartCurrentResolves(o)
    \/ \E o \in CallOutcomes : SmartRetryResolves(o)
    \/ SmartReturn

\* one SmartFallbackClient, its create calls one after the other
SmartSpec == Init /\ [][SmartNext]_vars

\* ----------------------------------------------------------- get_model_client
\* number of get_model_client calls of a behaviour
MaxClients == 3

\* the variables get_model_client leaves alone
factoryFrame == <<strategicVars, componentVars, smartVars, threadVars, cancelVars, monitorVars, rbacVars>>

\* StrategicChatCompletionClient.__init__, line 177: the manager of a new
\* client, with n the number of managers constructed so far, is a new
\* StrategicClientManager()
manager_of_new_client(n) == n + 1

\* get_model_client(operation_type), priority 1: create_strategic_client
\* constructs a client, its manager, and the provider clients of the manager
GetModelClient(op) ==
    /\ Len(clients) < MaxClients
    /\ envHF \/ envGroq
    /\ \E m \in {manager_of_new_client(managers)},
          made \in {initialize_clients(envHF, envGroq)} :
          /\ clients' = Append(clients, [operation_type |-> op, manager |-> m])
          /\ IF m > managers
             THEN /\ managers' = m
                  /\ instances' =
                        [hf |-> instances.hf + (IF made.hf_client THEN 1 ELSE 0),
                         groq |-> instances.groq + (IF made.groq_client THEN 1 ELSE 0)]
             ELSE UNCHANGED <<managers, instances>>
    /\ UNCHANGED factoryFrame

FactoryNext == \E op \in OperationTypes : GetModelClient(op)

\* the strategic clients of a process
FactorySpec == Init /\ [][FactoryNext]_vars

\* ------------------------------------------- create called from several threads
\* number of create calls of one thread
MaxThreadCalls == 2

\* the threads call_agent_sync has started
Threads == 1..2

\* self.current_client of the client the threads share: a client for
\* 'query' operations whose manager has a Groq client
ThreadClient == get_client_for_operation("query", TRUE, TRUE)

\* the variables other than the counters that the threads leave alone
threadFrame == <<componentVars, smartVars, factoryVars, cancelVars, monitorVars, rbacVars>>

\* the variables of the strategic client that create does not assign
threadFixed == <<envHF, envGroq, phase, hf_client, groq_client, emergency_client,
                 operation_type, current_client, pc, messages, attempts, error,
                 result, nCalls, attempted, failed, initEnv>>

\* line 254: a thread calls create and awaits the current client p
ThreadBegin(t) ==
    /\ th_pc[t] = "idle"
    /\ th_calls[t] < MaxThreadCalls
    /\ th_calls' = [th_calls EXCEPT ![t] = @ + 1]
    /\ th_pc' = [th_pc EXCEPT ![t] = "await"]
    /\ UNCHANGED <<operation_stats, th_key, th_reg, increments>>
    /\ UNCHANGED threadFixed
    /\ UNCHANGED threadFrame

\* lines 256-269: the awaited call of the current client returns or raises,
\* and the thread reaches the += statement of the calls or of the errors
\* counter
ThreadResolves(t, raised) ==
    /\ th_pc[t] = "await"
    /\ th_key' = [th_key EXCEPT ![t] = IF raised THEN ErrorsKey(ThreadClient)
                                       ELSE CallsKey(ThreadClient)]
    /\ th_pc' = [th_pc EXCEPT ![t] = IF raised THEN "errors" ELSE "calls"]
    /\ UNCHANGED <<operation_stats, th_reg, th_calls, increments>>
    /\ UNCHANGED threadFixed
    /\ UNCHANGED threadFrame

\* operation_stats[key] += 1, first half: the value of the counter is read
ThreadLoad(t) ==
    /\ th_pc[t] \in {"calls", "errors", "emergency"}
    /\ th_reg' = [th_reg EXCEPT ![t] = operation_stats[th_key[t]]]
    /\ th_pc' = [th_pc EXCEPT ![t] = "store_" \o th_pc[t]]
    /\ UNCHANGED <<operation_stats, th_key, th_calls, increments>>
    /\ UNCHANGED threadFixed
    /\ UNCHANGED threadFrame

\* operation_stats[key] += 1, second half: the value read plus one is
\* stored; after the errors counter the emergency client answers and line
\* 311 increments emergency_calls
ThreadStore(t) ==
    /\ th_pc[t] \in {"store_calls", "store_errors", "store_emergency"}
    /\ operation_stats' = [operation_stats EXCEPT ![th_key[t]] = th_reg[t] + 1]
    /\ increments' = [increments EXCEPT ![th_key[t]] = @ + 1]
    /\ IF th_pc[t] = "store_errors"
       THEN /\ th_pc' = [th_pc EXCEPT ![t] = "emergency"]
            /\ th_key' = [th_key EXCEPT ![t] = "emergency_calls"]
       ELSE /\ th_pc' = [th_pc EXCEPT ![t] = "idle"]
            /\ th_key' = [th_key EXCEPT ![t] = "none"]
    /\ UNCHANGED <<th_reg, th_calls>>
    /\ UNCHANGED threadFixed
    /\ UNCHANGED threadFrame

ThreadNext ==
    \E t \in Threads :
        \/ ThreadBegin(t)
        \/ \E raised \in BOOLEAN : ThreadResolves(t, raised)
        \/ ThreadLoad(t)
        \/ ThreadStore(t)

\* several threads run create on one strategic client
ThreadSpec == Init /\ [][ThreadNext]_vars

\* ------------------------------------------------ the cancellation token
\* the variables the caller of cancel leaves alone
cancelFrame == <<strategicVars, componentVars, smartVars, factoryVars, threadVars, monitorVars, rbacVars>>

\* the caller triggers the cancellation token while create awaits its
\* current client; create and the provider clients pass the token on and
\* never read it
Cancel ==
    /\ pc = "primary"
    /\ cancelled = 0
    /\ cancelled' = nCalls
    /\ UNCHANGED cancelFrame

CancelNext ==
    \/ NextFair
    \/ Cancel

\* create calls of one client whose token may be triggered
CancelSpec == Init /\ [][CancelNext]_vars

\* ------------------------------------------------------- PerformanceMonitor
\* number of record_metric calls of a behaviour
MaxRecords == 2

\* the variables PerformanceMonitor leaves alone
monitorFrame == <<strategicVars, componentVars, smartVars, factoryVars, threadVars, cancelVars, rbacVars>>

\* the metric names passed to record_metric; cache_hit_time has no thresholds
MetricNames ==
    {"workflow_execution_time", "sql_generation_time", "success_rate",
     "memory_usage", "cache_hit_time"}

\* the values passed to record_metric, in tenths of the unit
MetricValues == {25, 80, 95, 150, 162, 310, 650, 950}

\* setup_default_thresholds, in tenths of the unit, for the metric names
\* above that have thresholds
thresholds ==
    [workflow_execution_time |-> [warning |-> 80, critical |-> 150],
     sql_generation_time |-> [warning |-> 30, critical |-> 50],
     success_rate |-> [warning |-> 850, critical |-> 700],
     memory_usage |-> [warning |-> 800, critical |-> 900]]

\* SystemAlert
SystemAlert(severity, metric_name, value, threshold) ==
    [alert_type |-> "threshold_exceeded", severity |-> severity,
     metric_name |-> metric_name, current_value |-> value, threshold |-> threshold]

\* the test of a threshold: below it for success_rate, above it otherwise
exceeds(metric_name, value, threshold) ==
    IF metric_name = "success_rate" THEN value < threshold ELSE value > threshold

\* _check_thresholds: the alerts it generates. Every entry of thresholds has
\* the key 'critical', so the elif branch of the warning threshold (line
\* 171) is never taken
check_thresholds(metric_name, value) ==
    IF metric_name \notin DOMAIN thresholds THEN << >>
    ELSE LET th == thresholds[metric_name]
         IN  IF "critical" \in DOMAIN th
             THEN (IF exceeds(metric_name, value, th.critical)
                   THEN << SystemAlert("critical", metric_name, value, th.critical) >>
                   ELSE << >>)
             ELSE IF "warning" \in DOMAIN th
             THEN (IF exceeds(metric_name, value, th.warning)
                   THEN << SystemAlert("warning", metric_name, value, th.warning) >>
                   ELSE << >>)
             ELSE << >>

\* deque(maxlen=100).append for each of the new alerts
append_alerts(old, new) ==
    LET all == old \o new
    IN  IF Len(all) > 100 THEN SubSeq(all, Len(all) - 99, Len(all)) ELSE all

RECURSIVE HistorySize(_, _)
\* the number of values in the histories of the metric names of a set
HistorySize(history, names) ==
    IF names = {} THEN 0
    ELSE LET n == CHOOSE x \in names : TRUE
         IN  Len(history[n]) + HistorySize(history, names \ {n})

\* record_metric(metric_name, value)
RecordMetric(metric_name, value) ==
    /\ HistorySize(metrics_history, MetricNames) < MaxRecords
    /\ metrics_history' = [metrics_history EXCEPT ![metric_name] = Append(@, value)]
    /\ session_metrics' =
          IF metric_name = "workflow_execution_time"
          THEN [total_requests |-> session_metrics.total_requests + 1,
                total_response_time |-> session_metrics.total_response_time + value,
                successful_requests |-> session_metrics.successful_requests
                                        + (IF value < 300 THEN 1 ELSE 0),
                failed_requests |-> session_metrics.failed_requests
                                    + (IF value < 300 THEN 0 ELSE 1)]
          ELSE session_metrics
    /\ alerts' = append_alerts(alerts, check_thresholds(metric_name, value))
    /\ last_record' = [metric_name |-> metric_name, value |-> value,
                       alerts_before |-> Len(alerts)]
    /\ UNCHANGED monitorFrame

MonitorNext ==
    \E metric_name \in MetricNames, value \in MetricValues :
        RecordMetric(metric_name, value)

\* one PerformanceMonitor and its record_metric calls
MonitorSpec == Init /\ [][MonitorNext]_vars

\* ---------------------------------------------------------------- RBACManager
\* number of sessions created in a behaviour
MaxSessions == 2

\* the last value of datetime.now()
MaxClock == 4200

\* the seconds between two calls
ClockStep == 600

\* the variables RBACManager leaves alone
rbacFrame == <<strategicVars, componentVars, smartVars, factoryVars, threadVars, cancelVars, monitorVars>>

\* a column that is NULL, a method that returns None
NULL == -1

\* os.getenv("RBAC_MAX_LOGIN_ATTEMPTS", 3)
max_attempts == 3

\* os.getenv("RBAC_LOCKOUT_DURATION", 900)
lockout_duration == 900

\* os.getenv("RBAC_SESSION_TIMEOUT", 3600)
session_timeout == 3600

\* class UserRole
UserRoles ==
    {"super_admin", "system_admin", "me_officer", "health_supervisor",
     "county_manager", "data_analyst", "viewer", "guest"}

Usernames == {"admin", "alice"}

Passwords == {"KenyaHealth2025!", "wrongpassword"}

Counties == {"Kisumu", "Busia", "Nairobi"}

\* the lists of assigned counties given to create_user
CountyLists == { << >>, <<"Kisumu">>, <<"Kisumu", "Busia">> }

\* the roles that _init_role_permissions gives Permission.VIEW_ALL_COUNTIES
roles_with_view_all_counties ==
    {"super_admin", "system_admin", "me_officer", "data_analyst"}

\* has_permission(user, Permission.VIEW_ALL_COUNTIES)
has_permission_view_all_counties(role) == role \in roles_with_view_all_counties

\* county in user.counties
county_in(county, counties) == \E i \in 1..Len(counties) : counties[i] = county

\* can_access_county with the health supervisors among the roles of all counties
can_access_county_supervisors(user, county) ==
    IF user.role \in {"super_admin", "system_admin", "health_supervisor"} THEN TRUE
    ELSE IF user.role \in {"me_officer", "data_analyst"}
    THEN has_permission_view_all_counties(user.role)
    ELSE county_in(county, user.counties)

\* can_access_county(user, county)
can_access_county(user, county) ==
    IF user.role \in {"super_admin", "system_admin"} THEN TRUE
    ELSE IF user.role \in {"me_officer", "data_analyst"}
    THEN has_permission_view_all_counties(user.role)
    ELSE county_in(county, user.counties)

\* the row create_user inserts
NewUser(password, role, counties) ==
    [password |-> password, role |-> role, counties |-> counties,
     is_active |-> TRUE, failed_login_attempts |-> 0, locked_until |-> NULL]

\* _verify_password: the hash of the password with the stored salt is the
\* stored hash
verify_password(password, user) == password = user.password

\* an account is never locked
is_locked_never(locked_until, t) == FALSE

\* authenticate, lines 316-320: locked_until is set and is in the future
is_locked(locked_until, t) == locked_until /= NULL /\ t < locked_until

\* authenticate(username, password) at time t, with sid the next session
\* id: the session id returned or NULL, and the two tables after the call
authenticate(tab, sess, username, password, t, sid) ==
    IF username \notin DOMAIN tab
    THEN [result |-> NULL, users |-> tab, sessions |-> sess]
    ELSE LET user == tab[username]
         IN  IF is_locked(user.locked_until, t)
             THEN [result |-> NULL, users |-> tab, sessions |-> sess]
             ELSE IF ~user.is_active
             THEN [result |-> NULL, users |-> tab, sessions |-> sess]
             ELSE IF ~verify_password(password, user)
             THEN LET failed_attempts == user.failed_login_attempts + 1
                  IN  [result |-> NULL,
                       users |-> [tab EXCEPT ![username] =
                                    IF failed_attempts >= max_attempts
                                    THEN [@ EXCEPT !.failed_login_attempts = failed_attempts,
                                                   !.locked_until = t + lockout_duration]
                                    ELSE [@ EXCEPT !.failed_login_attempts = failed_attempts]],
                       sessions |-> sess]
             ELSE [result |-> sid,
                   users |-> [tab EXCEPT ![username] =
                                [@ EXCEPT !.failed_login_attempts = 0,
                                          !.locked_until = NULL]],
                   sessions |-> sess \cup {[session_id |-> sid, username |-> username,
                                            expires_at |-> t + session_timeout]}]

\* the sessions table is read without the test of expires_at
get_user_by_session_unexpired(tab, sess, sid, t) ==
    IF \E s \in sess : s.session_id = sid /\ s.username \in DOMAIN tab
    THEN (CHOOSE s \in sess : s.session_id = sid).username
    ELSE "None"

\* get_user_by_session(session_id) at time t: the username of the user of
\* the session, or "None"
get_user_by_session(tab, sess, sid, t) ==
    IF \E s \in sess : /\ s.session_id = sid
                       /\ s.username \in DOMAIN tab
                       /\ s.expires_at > t
    THEN (CHOOSE s \in sess : s.session_id = sid).username
    ELSE "None"

\* logout: DELETE FROM sessions WHERE session_id = ?
logout(sess, sid) == {s \in sess : s.session_id /= sid}

\* cleanup_expired_sessions: DELETE FROM sessions WHERE expires_at < ?
cleanup_expired_sessions(sess, t) == {s \in sess : ~(s.expires_at < t)}

\* RBACManager.__init__: _create_default_admin
RbacInit ==
    /\ "admin" \notin DOMAIN users
    /\ users' = ("admin" :> NewUser("KenyaHealth2025!", "super_admin",
                                    <<"Kisumu", "Busia", "Vihiga">>)) @@ users
    /\ last_op' = [op |-> "init"]
    /\ UNCHANGED <<sessions, clock, next_session, issued, logged_out>>
    /\ UNCHANGED rbacFrame

\* create_user: the INSERT fails for a username that exists
CreateUser(username, password, role, counties) ==
    /\ "admin" \in DOMAIN users
    /\ users' = IF username \in DOMAIN users THEN users
                ELSE (username :> NewUser(password, role, counties)) @@ users
    /\ last_op' = [op |-> "create_user", username |-> username,
                   result |-> username \notin DOMAIN users]
    /\ UNCHANGED <<sessions, clock, next_session, issued, logged_out>>
    /\ UNCHANGED rbacFrame

\* authenticate(username, password)
Authenticate(username, password) ==
    /\ "admin" \in DOMAIN users
    /\ next_session < MaxSessions
    /\ \E r \in {authenticate(users, sessions, username, password, clock,
                              next_session + 1)} :
          /\ users' = r.users
          /\ sessions' = r.sessions
          /\ next_session' = IF r.result = NULL THEN next_session ELSE next_session + 1
          /\ issued' = IF r.result = NULL THEN issued
                       ELSE issued \cup {[session_id |-> r.result, username |-> username,
                                          expires_at |-> clock + session_timeout]}
          /\ last_op' = [op |-> "authenticate", username |-> username,
                         password |-> password, result |-> r.result]
    /\ UNCHANGED <<clock, logged_out>>
    /\ UNCHANGED rbacFrame

\* get_user_by_session(session_id)
GetUserBySession(sid) ==
    /\ "admin" \in DOMAIN users
    /\ last_op' = [op |-> "get_user_by_session", session_id |-> sid,
                   result |-> get_user_by_session(users, sessions, sid, clock)]
    /\ UNCHANGED <<users, sessions, clock, next_session, issued, logged_out>>
    /\ UNCHANGED rbacFrame

\* logout(session_id)
Logout(sid) ==
    /\ "admin" \in DOMAIN users
    /\ sessions' = logout(sessions, sid)
    /\ logged_out' = logged_out \cup {sid}
    /\ last_op' = [op |-> "logout", session_id |-> sid, result |-> TRUE]
    /\ UNCHANGED <<users, clock, next_session, issued>>
    /\ UNCHANGED rbacFrame

\* cleanup_expired_sessions()
CleanupExpiredSessions ==
    /\ "admin" \in DOMAIN users
    /\ sessions' = cleanup_expired_sessions(sessions, clock)
    /\ last_op' = [op |-> "cleanup_expired_sessions",
                   result |-> Cardinality(sessions)
                              - Cardinality(cleanup_expired_sessions(sessions, clock))]
    /\ UNCHANGED <<users, clock, next_session, issued, logged_out>>
    /\ UNCHANGED rbacFrame

\* time passes between two calls
ClockTick ==
    /\ clock + ClockStep <= MaxClock
    /\ clock' = clock + ClockStep
    /\ UNCHANGED <<users, sessions, next_session, issued, logged_out, last_op>>
    /\ UNCHANGED rbacFrame

\* can_access_county(user, county) for a user of the users table
CheckCountyAccess(username, county) ==
    /\ username \in DOMAIN users
    /\ last_op' = [op |-> "can_access_county", username |-> username,
                   county |-> county,
                   result |-> can_access_county(users[username], county)]
    /\ UNCHANGED <<users, sessions, clock, next_session, issued, logged_out>>
    /\ UNCHANGED rbacFrame

CountyNext ==
    \/ RbacInit
    \/ \E role \in UserRoles, counties \in CountyLists :
          CreateUser("alice", "TestPass123!", role, counties)
    \/ \E username \in Usernames, county \in Counties :
          CheckCountyAccess(username, county)

\* users of every role and their access to the counties
CountySpec == Init /\ [][CountyNext]_vars

\* the session ids a caller can hold: the ones authenticate has returned,
\* and 0 for a string that is no session id
SessionIds == 0..next_session

AuthNext ==
    \/ RbacInit
    \/ \E username \in Usernames, password \in Passwords :
          Authenticate(username, password)
    \/ \E sid \in SessionIds : GetUserBySession(sid)
    \/ \E sid \in SessionIds : Logout(sid)
    \/ CleanupExpiredSessions
    \/ ClockTick

\* the logins, the sessions and the lockouts of the default admin, and the
\* logins of a username that is not in the users table
AuthSpec == Init /\ [][AuthNext]_vars

\* ------------------------------------------------------------------ claims
\* the create call has returned to its caller
Returned == pc = "done"

\* the last client.create call of the running create call
LastAttempt == attempts[Len(attempts)]

\* the providers of the client.create calls, in the order of the calls
AttemptedProviders == [i \in 1..Len(attempts) |-> attempts[i].provider]

\* the result is marked degraded: it has emergency_mode and it is true
Degraded(r) == r.has_emergency_mode /\ r.emergency_mode

\* C1 (as stated): whatever the providers and the emergency responder do,
\* create returns a completion produced by a network provider or by the
\* offline responder; no exception propagates and no other kind of result
\* (such as the 'system unavailable' response) is returned.
C1_NeverAnError ==
    Returned => result.producer \in {"groq", "hf", "emergency"}

\* C1 (amended): no exception propagates out of create; the result is the
\* response of a network provider, the response of the offline responder,
\* or the FinalErrorResponse, and the FinalErrorResponse is returned only
\* when the call of the emergency responder itself has raised.
C1_NoExceptionPropagates ==
    Returned =>
        /\ result.cls /= "none"
        /\ \/ result.producer \in {"groq", "hf", "emergency"}
           \/ /\ result.cls = "FinalErrorResponse"
              /\ attempts /= << >>
              /\ LastAttempt.provider = "emergency"
              /\ LastAttempt.status = "raised"

\* C1 witness: every provider and the emergency responder have raised and
\* create has returned the FinalErrorResponse
C1_Witness ==
    /\ Returned
    /\ Len(attempts) = 3
    /\ \A i \in 1..3 : attempts[i].status = "raised"
    /\ result.cls = "FinalErrorResponse"

\* the network calls made by the running create call have failed the way
\* the full-fallback scenario says: the fast provider with a timeout, the
\* stable provider with '429 rate limit'
FullFallbackScenario ==
    /\ operation_type = "interactive"
    /\ hf_client /\ groq_client
    /\ messages = ConvTotalCHWs
    /\ attempts /= << >>
    /\ \A i \in 1..Len(attempts) :
          /\ attempts[i].provider = "groq" =>
                attempts[i].kind = "net_fail" /\ attempts[i].err = ErrTimeout
          /\ attempts[i].provider = "hf" =>
                attempts[i].kind = "net_fail" /\ attempts[i].err = ErrRateLimit

\* C2: in the full-fallback scenario (interactive, both providers configured,
\* the fast provider's network call times out, the stable provider's answers
\* 429) create returns the offline responder's output: degraded, with the
\* banner and the total-CHW answer, and never a text made from a provider's
\* error.
C2_FullFallback ==
    (Returned /\ FullFallbackScenario) =>
        /\ result.producer = "emergency"
        /\ Degraded(result)
        /\ result.head = "EMERGENCY MODE - LIMITED FUNCTIONALITY"
        /\ result.body = "total_chws"
        /\ result.cls /= "ErrorResponse"

\* the texts of ErrorTexts that contain a server-error, a rate-limit or a
\* model-error phrase
FallbackTexts == {ErrRateLimit, ErrServer, ErrModel}

\* the first client.create call has raised and the other network provider
\* is configured
FirstRaisedOtherConfigured ==
    /\ Len(attempts) >= 2
    /\ attempts[1].status = "raised"
    /\ attempts[1].provider \in {"groq", "hf"}
    /\ Available(fallback_of(attempts[1].provider))

C4_DegradedIffOffline ==
    (Returned /\ result.cls /= "none") =>
        (Degraded(result) <=>
            (LastAttempt.provider = "emergency" /\ LastAttempt.status = "returned"))

\* C4 witness: the offline responder has produced the result
C4_Witness ==
    /\ Returned
    /\ attempts /= << >>
    /\ LastAttempt.provider = "emergency"
    /\ LastAttempt.status = "returned"
    /\ Degraded(result)

\* the resolved order of a create call
RouteOrder == << current_client, fallback_of(current_client), "emergency" >>

\* position of provider p in the resolved order
RoutePos(p) == CHOOSE k \in 1..3 : RouteOrder[k] = p

InCall == pc \in {"primary", "fallback", "emergency"}

\* the resolved list of network providers of the manager
NetworkList == {p \in {"hf", "groq"} : Available(p)}

\* at most len(list)+1 client.create calls, the last one on the offline
\* responder when no network provider has answered
AttemptBound ==
    phase = "ready" =>
        /\ Len(attempts) <= Cardinality(NetworkList) + 1
        /\ (Returned /\ attempts /= << >>
              /\ \A i \in 1..Len(attempts) :
                    attempts[i].provider \in {"hf", "groq"} => attempts[i].status = "raised")
           => LastAttempt.provider = "emergency"

C7_Routing ==
    (phase = "ready" /\ hf_client /\ groq_client) =>
        /\ current_client = (IF operation_type \in {"system", "other"}
                             THEN "hf" ELSE "groq")
        /\ attempts /= << >> => attempts[1].provider = current_client
        /\ (Len(attempts) >= 2 /\ attempts[2].provider /= "emergency")
              => attempts[2].provider = fallback_of(current_client)
        /\ \A i \in 1..Len(attempts) :
              attempts[i].provider = "emergency" => i = Len(attempts)
        /\ Len(attempts) = 3 => attempts[3].provider = "emergency"

\* C7 witness: an interactive call has gone through [fast, stable, offline]
C7_Witness ==
    /\ Returned
    /\ operation_type = "interactive"
    /\ hf_client /\ groq_client
    /\ AttemptedProviders = << "groq", "hf", "emergency" >>

\* C8: a network provider whose credential was absent when the manager was
\* built is never attempted by a create call, as primary or as fallback,
\* and does not become available later.
C8_AbsentNeverAttempted ==
    phase = "ready" =>
        /\ ~initEnv.hf =>
              /\ ~hf_client
              /\ current_client /= "hf"
              /\ attempted["hf"] = 0
              /\ \A i \in 1..Len(attempts) : attempts[i].provider /= "hf"
        /\ ~initEnv.groq =>
              /\ ~groq_client
              /\ current_client /= "groq"
              /\ attempted["groq"] = 0
              /\ \A i \in 1..Len(attempts) : attempts[i].provider /= "groq"

\* C8 witness: HF_API_KEY was absent at construction and is set now; a
\* 'system' call went to groq, which raised a rate limit, and then to the
\* offline responder
C8_Witness ==
    /\ Returned
    /\ ~initEnv.hf /\ envHF
    /\ operation_type = "system"
    /\ Len(attempts) = 2
    /\ attempts[1].provider = "groq"
    /\ attempts[1].err = ErrRateLimit
    /\ attempts[2].provider = "emergency"

\* C9: with neither GROQ_API_KEY nor HF_API_KEY the construction of
\* StrategicClientManager raises, and once the construction has succeeded
\* no create call raises.
C9_NoCredentialsIsFatal ==
    /\ (phase /= "new" /\ ~initEnv.hf /\ ~initEnv.groq) => phase = "manager_raised"
    /\ Returned => result.cls /= "none"

\* the calls counter of a provider
CallsOf(p) ==
    IF p = "groq" THEN operation_stats.groq_calls
    ELSE IF p = "hf" THEN operation_stats.hf_calls
    ELSE operation_stats.emergency_calls

\* C10: every provider attempt made inside create increments the provider's
\* calls counter by one, so that after any sequence of create calls each
\* calls counter equals the number of attempts made on the provider.
C10_CallsCountAttempts ==
    (phase = "ready" /\ pc = "idle") =>
        \A p \in Providers : CallsOf(p) = attempted[p]

\* the errors counter of a provider
ErrorsOf(p) ==
    IF p = "groq" THEN operation_stats.groq_errors
    ELSE IF p = "hf" THEN operation_stats.hf_errors
    ELSE operation_stats.emergency_errors

\* C11: every failed provider attempt inside create, the one on the fallback
\* provider included, increments the provider's errors counter by one and a
\* successful attempt increments none, so that after any sequence of create
\* calls each errors counter equals the number of failed attempts on the
\* provider.
C11_ErrorsCountFailures ==
    (phase = "ready" /\ pc = "idle") =>
        \A p \in Providers : ErrorsOf(p) = failed[p]

\* C12: after any sequence of create calls the reliability score is in
\* [0, 1], and it is 1.0 when no calls have been made.
C12_ScoreBounds ==
    LET score == calculate_reliability_score(operation_stats)
    IN  /\ score.den > 0
        /\ 0 <= score.num
        /\ score.num <= score.den
        /\ total_calls(operation_stats) = 0 => score.num = score.den

\* C12 witness: calls have been counted, more errors than calls have been
\* counted, and the score is 0.0
C12_Witness ==
    /\ pc = "idle"
    /\ total_calls(operation_stats) > 0
    /\ total_errors(operation_stats) > total_calls(operation_stats)
    /\ calculate_reliability_score(operation_stats).num = 0

\* C13: with the calls and errors counters of the network providers held
\* fixed, the reliability score of a counter state with one more offline
\* invocation (emergency_calls) is strictly smaller.
C13_ScoreStrictlyDecreases ==
    phase = "ready" =>
        FracLess(calculate_reliability_score(Bump(operation_stats, "emergency_calls")),
                 calculate_reliability_score(operation_stats))


\* the responder has answered a direct call
ResponderReturned == pc = "done" /\ callee = "emergency"

\* the positions of the user messages that carry a text
UserMessagesOf(msgs) ==
    {i \in 1..Len(msgs) : msgs[i].source = "user" /\ msgs[i].content /= << >>}

\* the text of the most recent user message, or the literal when there is none
MostRecentUserText(msgs) ==
    IF UserMessagesOf(msgs) = {} THEN SystemStatusLiteral
    ELSE msgs[CHOOSE i \in UserMessagesOf(msgs) :
                  \A k \in UserMessagesOf(msgs) : k <= i].content

\* C14: the text the responder matches against its patterns is the text of
\* the most recent user message of the conversation, and the literal
\* 'system status' when the conversation has no user message
C14_AnswersLastUserMessage ==
    ResponderReturned => user_query = MostRecentUserText(messages)

\* the patterns, by position in the declaration order, that match the
\* lowercased text
MatchingPatterns(text) ==
    CHOOSE hits \in {{i \in 1..Len(query_patterns) : re_search(query_patterns[i], q)} :
                     q \in {Lower(text)}} : TRUE

\* the category of the first matching pattern; "none" when no pattern matches
FirstCategory(text) ==
    CHOOSE c \in {IF hits = {} THEN "none"
                  ELSE query_patterns[CHOOSE i \in hits : \A k \in hits : i <= k].name :
                  hits \in {MatchingPatterns(text)}} : TRUE

\* C15 as stated: the answer is the canned answer of the category of the
\* first pattern, in declaration order, that matches the query without
\* regard to case, and the general 'unavailable' answer is returned only
\* when no pattern matches
C15_UnavailableOnlyWithoutMatch ==
    ResponderReturned =>
        \E c \in {FirstCategory(user_query)} :
            IF c = "none" THEN result.body = "system_unavailable"
            ELSE result.body = c

\* C15: the category is the one of the first pattern, in declaration order,
\* that matches the query without regard to case; the answer is the canned
\* answer of that category when the category has one, and the general
\* 'unavailable' answer when no pattern matches or the category has no
\* canned answer
C15_FirstMatchDecides ==
    ResponderReturned =>
        \E c \in {FirstCategory(user_query)} :
            IF c \in cached_responses THEN result.body = c
            ELSE result.body = "system_unavailable"

\* a query in mixed case that several patterns match got the answer of the
\* first of them
C15_Witness ==
    /\ ResponderReturned
    /\ user_query = QueryCountyTrends
    /\ Cardinality(MatchingPatterns(user_query)) > 1
    /\ result.body = "county_performance"

\* C16: two calls of the responder on conversations with the same most
\* recent user text return the same response, whatever the other messages
\* of the conversations are
C16_SameUserTextSameAnswer ==
    ResponderReturned =>
        \A c \in ComponentConversations :
            MostRecentUserText(c) = MostRecentUserText(messages)
                => EmergencyCreate(c).response = result

\* a provider client has been called directly
ProviderCalled == callee \in {"groq", "hf"}

\* the direct call of a provider client has returned
ProviderReturned == ProviderCalled /\ pc = "done"

\* C17: a create of a provider client on a conversation that is empty, or
\* empty after formatting, makes no network call and returns an error
C17_EmptyConversationRejected ==
    (ProviderReturned /\ wire_messages(callee, messages) = << >>) =>
        /\ requests = << >>
        /\ result.cls = "ErrorResponse"

\* the messages of the conversation whose text is neither empty nor blank
NonBlankMessages(msgs) ==
    LET keep(m) == m.content /= << >> /\ ~IsBlank(m.content)
    IN  SelectSeq(msgs, keep)

\* the texts of a list of messages, in order
TextsOf(list) == [i \in 1..Len(list) |-> list[i].content]

\* C18: the wire message list a provider client sends holds the messages of
\* the conversation whose text is neither empty nor whitespace-only, all of
\* them and in their order
C18_WireListDropsBlanks ==
    ProviderCalled =>
        \A k \in 1..Len(requests) :
            TextsOf(requests[k]) = TextsOf(NonBlankMessages(messages))

\* C19: a create of a provider client never makes more than one network
\* call, and it has made exactly one when it returns from a conversation
\* that is not empty after formatting, whether that call failed or not
C19_ExactlyOneNetworkCall ==
    ProviderCalled =>
        /\ Len(requests) <= 1
        /\ (pc = "done" /\ wire_messages(callee, messages) /= << >>)
               => Len(requests) = 1

\* a create returned the error of its failed network call after one call
C19_Witness ==
    /\ ProviderReturned
    /\ result.cls = "ErrorResponse"
    /\ result.err \in {ErrTimeout, ErrRateLimit}
    /\ Len(requests) = 1

\* the class of an error text: the first, in the order rate_limited,
\* server_error, model_error, transport_error, of the flags that is set
Classify(flags) ==
    IF flags.is_rate_limit THEN "rate_limited"
    ELSE IF flags.is_server_error THEN "server_error"
    ELSE IF flags.is_model_error THEN "model_error"
    ELSE IF flags.should_fallback THEN "transport_error"
    ELSE "unknown"

\* C20: the flags are those of the lower-cased text, a text that sets
\* several flags gets the earliest class, and '429 too many requests' is
\* rate_limited, '500 internal server error' is server_error, 'request timed
\* out' is transport_error and 'banana' is unknown
C20_ClassifierCoverage ==
    (pc = "done" /\ callee = "classifier") =>
        /\ failure_class = error_flags(Lower(error))
        /\ error = Text429Server => Classify(failure_class) = "rate_limited"
        /\ error = TextGatewayTimeout => Classify(failure_class) = "server_error"
        /\ error = Text429 => Classify(failure_class) = "rate_limited"
        /\ error = Text500 => Classify(failure_class) = "server_error"
        /\ error = TextTimedOut => Classify(failure_class) = "transport_error"
        /\ error = ErrUnknown => Classify(failure_class) = "unknown"

\* C27: for each provider the errors counter is at most the calls counter
C27_ErrorsAtMostCalls ==
    phase = "ready" =>
        \A p \in Providers : ErrorsOf(p) <= CallsOf(p)

\* C30: no step of a create call changes current_client or the clients of
\* the manager, and every call awaits current_client first
C30_PreferredProviderFixed ==
    [][(phase = "ready" /\ phase' = "ready") =>
          /\ current_client' = current_client
          /\ hf_client' = hf_client
          /\ groq_client' = groq_client
          /\ emergency_client' = emergency_client
          /\ pc' = "primary" => attempts'[1].provider = current_client]_vars

\* the second call of a client awaits the provider that raised in the first
C30_Witness ==
    /\ nCalls = 2
    /\ pc = "primary"
    /\ failed[current_client] = 1
    /\ attempts[1].provider = current_client
    /\ Available(fallback_of(current_client))

\* C21: a create call made while the fallback is active and at most 300
\* seconds have passed since its activation awaits the fallback provider
\* only; one made later awaits the primary provider first and the fallback
\* provider after it
C21_Cooldown ==
    (sf_pc /= "idle" /\ sf_call.active /\ primary_client) =>
        IF sf_call.time - sf_call.since <= 300
        THEN \A i \in 1..Len(sf_attempts) : sf_attempts[i] = "hf"
        ELSE /\ sf_attempts /= << >>
             /\ sf_attempts[1] = "groq"
             /\ Len(sf_attempts) > 1 => sf_attempts[2] = "hf"

\* a call made later than 300 seconds after the activation awaited the
\* primary provider and then the fallback provider
C21_Witness ==
    /\ sf_pc = "retry"
    /\ sf_call.active
    /\ sf_call.time - sf_call.since > 300
    /\ sf_attempts = <<"groq", "hf">>

\* C22: at most one client object of each network provider is constructed,
\* and all strategic clients have the same manager
C22_ProviderSingletons ==
    /\ \A p \in {"hf", "groq"} : instances[p] <= 1
    /\ \A i, j \in 1..Len(clients) : clients[i].manager = clients[j].manager

\* C23: when no create call is running, every counter equals the number of
\* increments the create calls have performed on it
C23_NoLostIncrement ==
    (\A t \in Threads : th_pc[t] = "idle") =>
        \A k \in DOMAIN increments : operation_stats[k] = increments[k]

\* C24: a create call whose token was triggered while it awaited the Groq
\* client has abandoned that attempt as a failure and returns the response
\* of the Hugging Face client or of the emergency responder
C24_CancelledAttemptAbandoned ==
    (pc = "done" /\ cancelled = nCalls /\ attempts /= << >>
                 /\ attempts[1].provider = "groq") =>
        /\ attempts[1].status = "raised"
        /\ result.producer \in {"hf", "emergency"}

\* the alerts the last record_metric call appended
NewAlerts == SubSeq(alerts, last_record.alerts_before + 1, Len(alerts))

\* C25: for a metric with thresholds other than success_rate, a recorded
\* value above the warning threshold and not above the critical threshold
\* appends exactly one alert, of severity 'warning', and a value above the
\* critical threshold appends exactly one alert, of severity 'critical'
C25_AlertForEveryCrossing ==
    (last_record.metric_name \in DOMAIN thresholds
        /\ last_record.metric_name /= "success_rate") =>
        LET th == thresholds[last_record.metric_name]
            v == last_record.value
        IN  /\ (v > th.warning /\ ~(v > th.critical)) =>
                   /\ Len(NewAlerts) = 1
                   /\ NewAlerts[1].severity = "warning"
            /\ v > th.critical =>
                   /\ Len(NewAlerts) = 1
                   /\ NewAlerts[1].severity = "critical"

\* C26: can_access_county is true for every county when the user's role is
\* super_admin or system_admin, and for a health_supervisor, county_manager,
\* viewer or guest it is true exactly when the county is one of the user's
\* assigned counties.
C26_CountyAccess ==
    last_op.op = "can_access_county" =>
        LET user == users[last_op.username]
            assigned == {user.counties[i] : i \in DOMAIN user.counties}
        IN  /\ user.role \in {"super_admin", "system_admin"} => last_op.result
            /\ user.role \in {"health_supervisor", "county_manager", "viewer", "guest"}
                  => (last_op.result <=> last_op.county \in assigned)

\* a health supervisor of Kisumu is refused Busia
C26_Witness ==
    /\ last_op.op = "can_access_county"
    /\ last_op.username = "alice"
    /\ users["alice"].role = "health_supervisor"
    /\ users["alice"].counties = <<"Kisumu">>
    /\ last_op.county = "Busia"
    /\ ~last_op.result

\* the account of the user is locked at the time of the clock
AccountLocked(username) ==
    /\ username \in DOMAIN users
    /\ users[username].is_active
    /\ users[username].locked_until /= NULL
    /\ clock < users[username].locked_until

\* the step is a call of authenticate for the user
AuthenticateStep(username) ==
    /\ last_op'.op = "authenticate"
    /\ last_op'.username = username
    /\ clock' = clock

\* C28: the authenticate call that records the third failed password attempt
\* of an active user locks the account, and while the account is locked
\* every authenticate call for the user returns None for any password,
\* creates no session and leaves failed_login_attempts and locked_until
\* unchanged.
C28_AccountLockout ==
    [][\A username \in Usernames :
          /\ ( /\ AuthenticateStep(username)
               /\ username \in DOMAIN users
               /\ users'[username].failed_login_attempts
                     = users[username].failed_login_attempts + 1
               /\ users'[username].failed_login_attempts >= max_attempts )
             => /\ users'[username].locked_until = clock + lockout_duration
                /\ AccountLocked(username)'
          /\ (AuthenticateStep(username) /\ AccountLocked(username))
             => /\ last_op'.result = NULL
                /\ sessions' = sessions
                /\ next_session' = next_session
                /\ users'[username].failed_login_attempts
                      = users[username].failed_login_attempts
                /\ users'[username].locked_until = users[username].locked_until
      ]_vars

\* the right password is refused ten minutes after the account was locked
C28_Witness ==
    /\ last_op.op = "authenticate"
    /\ last_op.username = "admin"
    /\ last_op.password = "KenyaHealth2025!"
    /\ last_op.result = NULL
    /\ users["admin"].failed_login_attempts = max_attempts
    /\ AccountLocked("admin")
    /\ clock = users["admin"].locked_until - lockout_duration + ClockStep

\* the step is a call of logout
LogoutStep ==
    /\ last_op'.op = "logout"
    /\ clock' = clock
    /\ sessions' /= sessions

\* C29: get_user_by_session(s) returns a user only if s was returned by a
\* successful authenticate call of that user, has not been passed to logout
\* and has not expired, and a logout of one session leaves what
\* get_user_by_session returns for every other session as it was.
C29_SessionValidity ==
    [][/\ \A sid \in 0..next_session' :
            get_user_by_session(users', sessions', sid, clock') /= "None" =>
               /\ sid \notin logged_out'
               /\ \E s \in issued' :
                     /\ s.session_id = sid
                     /\ s.username = get_user_by_session(users', sessions', sid, clock')
                     /\ clock' < s.expires_at
       /\ LogoutStep =>
             \A sid \in (0..next_session) \ {last_op'.session_id} :
                get_user_by_session(users', sessions', sid, clock')
                   = get_user_by_session(users, sessions, sid, clock)
      ]_vars

\* the second session of the admin is found after the logout of the first
C29_Witness ==
    /\ last_op.op = "get_user_by_session"
    /\ last_op.session_id = 2
    /\ last_op.result = "admin"
    /\ 1 \in logged_out
    /\ \E s \in issued : s.session_id = 1 /\ s.username = "admin" /\ clock < s.expires_at

====
